---------------------------- MODULE Spec2Model ----------------------------
(***************************************************************************)
(* A model of uPDFParser: the scanner (nextToken), the recursive value     *)
(* parser, the xref/trailer reader, the top-level parse loop and the two   *)
(* writers (full write and incremental update).                            *)
(*                                                                         *)
(* A file is a sequence of one-character strings.  A file descriptor is a  *)
(* 0-based offset into it: read() at offset p yields file[p+1].            *)
(***************************************************************************)
EXTENDS Integers, Sequences, FiniteSets, TLC

VARIABLES
    file,        \* bytes of the file at the parsed path
    fd,          \* Parser::fd, the read cursor (offset into file)
    curOffset,   \* Parser::curOffset
    xrefOffset,  \* Parser::xrefOffset
    objects,     \* Parser::_objects, in list order
    xrefTable,   \* Parser::_xrefTable, in list order
    trailer,     \* Parser::trailer's dictionary
    version,     \* <<version_major, version_minor>>
    secondLine,  \* local of Parser::parse
    pc,          \* where the caller's program is
    err,         \* the exception that ended the last call ("" for none)
    hist,        \* what the last completed call observed (for the properties)
    arg,         \* input of the operation under test (unit specifications)
    out          \* its result

vars == <<file, fd, curOffset, xrefOffset, objects, xrefTable, trailer,
          version, secondLine, pc, err, hist, arg, out>>

-----------------------------------------------------------------------------
(* Characters *)

NUL == "NUL"
Digits == <<"0", "1", "2", "3", "4", "5", "6", "7", "8", "9">>
DigitSet == {Digits[i] : i \in 1..10}
DigitVal(c) == (CHOOSE i \in 1..10 : Digits[i] = c) - 1

\* c == ' ' || c == '\t' || c == '\n' || c == '\r' || c == '\0'
White == {" ", "\t", "\n", "\r", NUL}
\* delims[] = " \t<>[]()/" and its terminating NUL (the loops run to sizeof)
Delims == {" ", "\t", "<", ">", "[", "]", "(", ")", "/", NUL}
WhitespacePrevDelims == {"+", "-", NUL}
StartDelims == {"<", ">", "[", "]", "(", ")", NUL}
EOL == {"\n", "\r"}

\* The byte order std::map<std::string,...> sorts keys by (ASCII).
CharOrder == <<"\t", "\n", "\r", " ", "%", "(", ")", "+", "-", ".", "/",
               "0", "1", "2", "3", "4", "5", "6", "7", "8", "9", "<", ">",
               "A", "B", "E", "F", "I", "L", "P", "R", "S", "X", "Z",
               "[", "]",
               "a", "b", "c", "d", "e", "f", "i", "j", "l", "m", "n", "o",
               "r", "s", "t", "u", "v", "x", "z">>
Ord(c) == CHOOSE i \in 1..Len(CharOrder) : CharOrder[i] = c

RECURSIVE StrLess(_, _)
StrLess(a, b) ==
    IF b = <<>> THEN FALSE
    ELSE IF a = <<>> THEN TRUE
    ELSE IF a[1] = b[1] THEN StrLess(Tail(a), Tail(b))
    ELSE Ord(a[1]) < Ord(b[1])

\* Let(v, F) is F(v) with v evaluated once
Let(v, F(_)) == CHOOSE r \in {F(x) : x \in {v}} : TRUE

RECURSIVE ConcatFrom(_, _, _)
ConcatFrom(ss, i, acc) ==
    IF i > Len(ss) THEN acc
    ELSE Let(acc \o ss[i], LAMBDA a : ConcatFrom(ss, i + 1, a))

Concat(ss) == ConcatFrom(ss, 1, <<>>)

IsPrefixAt(f, p, w) ==
    /\ p >= 0
    /\ p + Len(w) <= Len(f)
    /\ \A i \in 1..Len(w) : f[p + i] = w[i]

-----------------------------------------------------------------------------
(* Keywords *)

KwXref == <<"x", "r", "e", "f">>
KwTrailer == <<"t", "r", "a", "i", "l", "e", "r">>
KwStartxref == <<"s", "t", "a", "r", "t", "x", "r", "e", "f">>
KwObj == <<"o", "b", "j">>
KwEndobj == <<"e", "n", "d", "o", "b", "j">>
KwEOF == <<"%", "%", "E", "O", "F">>
KwPDF == <<"%", "P", "D", "F", "-">>
KwTrue == <<"t", "r", "u", "e">>
KwFalse == <<"f", "a", "l", "s", "e">>
KwNull == <<"n", "u", "l", "l">>
KwStream == <<"s", "t", "r", "e", "a", "m">>
KwEndstream == <<"e", "n", "d", "s", "t", "r", "e", "a", "m">>
KeyPrev == <<"P", "r", "e", "v">>
KeySize == <<"S", "i", "z", "e">>
KeyXRefStm == <<"X", "R", "e", "f", "S", "t", "m">>
KeyLength == <<"L", "e", "n", "g", "t", "h">>
KeyFilter == <<"F", "i", "l", "t", "e", "r">>

-----------------------------------------------------------------------------
(* Scanner *)

\* finishLine(fd): skip to the end of the line, and over a second
\* line terminator right after it
SkipToEOL(f, p) ==
    LET ends == {q \in (p + 1)..Len(f) : f[q] \in EOL} IN
    IF ends = {} THEN Len(f) ELSE CHOOSE q \in ends : \A r \in ends : q <= r

finishLine(f, p) ==
    Let(SkipToEOL(f, p),
        LAMBDA q : IF q < Len(f) /\ f[q + 1] \in EOL THEN q + 1 ELSE q)

\* the tail of nextToken: "Double '>' and '<' to compute dictionary"
NextTokenEnd(f, p, res, cur) ==
    IF (res = <<">">> \/ res = <<"<">>) /\ p < Len(f) /\ f[p + 1] = res[1]
    THEN [tok |-> res \o res, fd |-> p + 1, cur |-> cur, err |-> ""]
    ELSE [tok |-> res, fd |-> p, cur |-> cur, err |-> ""]

\* the inner loop of nextToken that keeps a comment (readComment = true):
\* the comment runs to the end of the line q, or to the end of the file
ReadComment(f, p, res, cur, exceptionOnEOF) ==
    Let(SkipToEOL(f, p),
        LAMBDA q :
            IF q > p /\ f[q] \in EOL
            THEN NextTokenEnd(f, q, res \o SubSeq(f, p + 1, q - 1), cur)
            ELSE IF exceptionOnEOF
            THEN [tok |-> res \o SubSeq(f, p + 1, q), fd |-> q, cur |-> cur,
                  err |-> "TRUNCATED_FILE"]
            ELSE NextTokenEnd(f, q, res \o SubSeq(f, p + 1, q), cur))

\* the while (!found) loop of nextToken; c is the character read last
RECURSIVE NextTokenLoop(_, _, _, _, _, _, _)
NextTokenLoop(f, p, c, res, cur, exceptionOnEOF, readComment) ==
    IF p >= Len(f)
    THEN IF exceptionOnEOF
         THEN [tok |-> res, fd |-> p, cur |-> cur, err |-> "TRUNCATED_FILE"]
         ELSE NextTokenEnd(f, p, res, cur)
    ELSE
    Let([prev_c |-> c, ch |-> f[p + 1], q |-> p + 1],
        LAMBDA a :
    IF a.ch = "%"
    THEN IF readComment
         THEN ReadComment(f, a.q, Append(res, a.ch), a.q - 1, exceptionOnEOF)
         ELSE IF res # <<>>
              THEN NextTokenEnd(f, finishLine(f, a.q), res, cur)
              ELSE Let(finishLine(f, a.q),
                       LAMBDA q2 : NextTokenLoop(f, q2, a.ch, res, cur,
                                                 exceptionOnEOF, readComment))
    ELSE IF a.ch \in White /\ res = <<>>
    THEN NextTokenLoop(f, a.q, a.ch, res, cur, exceptionOnEOF, readComment)
    ELSE IF a.ch \in EOL
    THEN NextTokenEnd(f, a.q, res, cur)
    ELSE IF res # <<>>
    THEN IF a.ch \in Delims
         THEN NextTokenEnd(f, a.q - 1, res, cur)
         ELSE IF a.prev_c = " " /\ a.ch \in WhitespacePrevDelims
         THEN NextTokenEnd(f, a.q - 1, res, cur)
         ELSE Let(Append(res, a.ch),
                  LAMBDA res2 : NextTokenLoop(f, a.q, a.ch, res2, cur,
                                              exceptionOnEOF, readComment))
    ELSE IF a.ch \in StartDelims
    THEN NextTokenEnd(f, a.q, <<a.ch>>, a.q - 1)
    ELSE Let(a.q - 1,
             LAMBDA cur2 : NextTokenLoop(f, a.q, a.ch, <<a.ch>>, cur2,
                                         exceptionOnEOF, readComment)))

\* Parser::nextToken from cursor p with curOffset = cur:
\* the token, the cursor and curOffset after it, and the exception raised
nextToken(f, p, cur, exceptionOnEOF, readComment) ==
    NextTokenLoop(f, p, NUL, <<>>, cur, exceptionOnEOF, readComment)

-----------------------------------------------------------------------------
(* Numbers *)

\* INT_MAX
IntMax == 2147483647

\* the longest run of digits that starts t
DigitPrefix(t) ==
    LET stops == {i \in 1..Len(t) : t[i] \notin DigitSet} IN
    IF stops = {} THEN t
    ELSE SubSeq(t, 1, (CHOOSE i \in stops : \A j \in stops : i <= j) - 1)

\* the value of the digits ds from the i-th on, given the value acc of those
\* before; -1 when it does not fit an int
RECURSIVE DecValue(_, _, _)
DecValue(ds, i, acc) ==
    IF i > Len(ds) THEN acc
    ELSE IF acc > (IntMax - DigitVal(ds[i])) \div 10 THEN 0 - 1
    ELSE Let(acc * 10 + DigitVal(ds[i]), LAMBDA a : DecValue(ds, i + 1, a))

\* std::stoi(token, 0, 10): an optional sign, then the longest run of digits
\* (the one value INT_MIN is left out of range: inputs stay far below it)
stoi(t) ==
    Let(DigitPrefix(IF t # <<>> /\ t[1] \in {"+", "-"} THEN Tail(t) ELSE t),
        LAMBDA ds :
            IF ds = <<>> THEN [v |-> 0, err |-> "invalid_argument"]
            ELSE Let(DecValue(ds, 1, 0),
                     LAMBDA v :
                         IF v < 0 THEN [v |-> 0, err |-> "out_of_range"]
                         ELSE [v |-> IF t[1] = "-" THEN 0 - v ELSE v,
                                 err |-> ""]))

\* the decimal digits of a non-negative integer
RECURSIVE ToDec(_)
ToDec(n) ==
    IF n < 10 THEN <<Digits[n + 1]>>
    ELSE Append(ToDec(n \div 10), Digits[(n % 10) + 1])

\* std::to_string(int), and operator<< of an integer
to_string(n) == IF n < 0 THEN <<"-">> \o ToDec(0 - n) ELSE ToDec(n)

-----------------------------------------------------------------------------
(* Values.  Each variant has its own field names. *)

Integer(v, sgn) == [t |-> "Integer", value |-> v, signed |-> sgn]
\* the float itself is not computed: a Real carries the text it came from
Real(txt, neg, sgn) == [t |-> "Real", rtext |-> txt, rneg |-> neg,
        rsigned |-> sgn]
Name(n) == [t |-> "Name", name |-> n]
String(s) == [t |-> "String", str |-> s]
HexaString(s) == [t |-> "HexaString", hex |-> s]
Array(xs) == [t |-> "Array", items |-> xs]
Dictionary(m) == [t |-> "Dictionary", map |-> m]
Reference(i, g) == [t |-> "Reference", refId |-> i, refGen |-> g]
Boolean(b) == [t |-> "Boolean", bool |-> b]
Null == [t |-> "Null"]
Stream(s, e) == [t |-> "Stream", startOffset |-> s, endOffset |-> e]
\* a null DataType* (dict[key] = 0)
NullPtr == [t |-> "nullptr"]

\* Name::value(): the name without its leading '/'
NameValue(n) == Tail(n.name)

-----------------------------------------------------------------------------
(* std::map<std::string, DataType*>: a sequence of entries, sorted by key *)

DictHas(m, k) == \E i \in 1..Len(m) : m[i].k = k
DictGet(m, k) == m[CHOOSE i \in 1..Len(m) : m[i].k = k].v

\* a map that keeps its entries in the order of their first insertion
DictPutInsertionOrder(m, k, v) ==
    IF DictHas(m, k)
    THEN [i \in 1..Len(m) |-> IF m[i].k = k THEN [k |-> k, v |-> v] ELSE m[i]]
    ELSE Append(m, [k |-> k, v |-> v])

\* operator[] of the map, as in dict[key] = value
DictPut(m, k, v) ==
    IF DictHas(m, k)
    THEN [i \in 1..Len(m) |-> IF m[i].k = k THEN [k |-> k, v |-> v] ELSE m[i]]
    ELSE LET n == Cardinality({i \in 1..Len(m) : StrLess(m[i].k, k)})
         IN SubSeq(m, 1, n) \o <<[k |-> k, v |-> v]>> \o SubSeq(m, n + 1,
                 Len(m))

\* Object::deleteKey
DictDel(m, k) == SelectSeq(m, LAMBDA e : e.k # k)

\* Dictionary::addData
addData(m, k, v) == DictPut(m, k, v)

-----------------------------------------------------------------------------
(* Number parsing *)

HasDot(t) == \E i \in 1..Len(t) : t[i] = "."

\* std::stof succeeds when a number starts the text
stofOK(t) ==
    LET body == IF t # <<>> /\ t[1] \in {"+", "-"} THEN Tail(t) ELSE t IN
    /\ body # <<>>
    /\ \/ body[1] \in DigitSet
       \/ body[1] = "." /\ Len(body) > 1 /\ body[2] \in DigitSet

\* tokenToNumber(token, sign); sign is NUL for '\0'
tokenToNumber(token, sign) ==
    IF HasDot(token)
    THEN LET tk == IF token[1] = "." THEN <<"0">> \o token ELSE token IN
         IF stofOK(tk)
         THEN [val |-> Real(tk, sign = "-", sign # NUL), err |-> ""]
         ELSE [val |-> NullPtr, err |-> "invalid_argument"]
    ELSE Let(stoi(token),
             LAMBDA r :
                 IF r.err # "" THEN [val |-> NullPtr, err |-> r.err]
                 ELSE [val |-> Integer(IF sign = "-" THEN 0 - r.v ELSE r.v,
                                       sign # NUL),
                       err |-> ""])

\* Parser::parseSignedNumber
parseSignedNumber(token) == tokenToNumber(Tail(token), token[1])

\* Parser::parseNumber
parseNumber(token) == tokenToNumber(token, NUL)

\* Integer::str
IntegerStr(x) ==
    LET sign == IF x.signed /\ x.value >= 0 THEN <<"+">> ELSE <<>> IN
    <<" ">> \o sign \o to_string(x.value)

\* parseNumberOrReference after its two nextToken calls: res is the Integer,
\* offset the cursor saved before them, t2 and t3 their results
ReferenceOrRollback(res, offset, t2, t3) ==
    Let(tokenToNumber(t2.tok, NUL),
        LAMBDA generationNumber :
            IF generationNumber.err = "invalid_argument"
            THEN [val |-> res, fd |-> offset, cur |-> t3.cur, err |-> ""]
            ELSE IF generationNumber.err # ""
            THEN [val |-> NullPtr, fd |-> t3.fd, cur |-> t3.cur,
                  err |-> generationNumber.err]
            ELSE IF generationNumber.val.t # "Integer" \/ t3.tok # <<"R">>
            THEN [val |-> res, fd |-> offset, cur |-> t3.cur, err |-> ""]
            ELSE [val |-> Reference(res.value, generationNumber.val.value),
                  fd |-> t3.fd, cur |-> t3.cur, err |-> ""])

\* Parser::parseNumberOrReference, called with the cursor p after the token
\* and curOffset = cur
parseNumberOrReference(f, token, p, cur) ==
    Let(tokenToNumber(token, NUL),
        LAMBDA res :
    IF res.err # "" THEN [val |-> NullPtr, fd |-> p, cur |-> cur,
            err |-> res.err]
    ELSE IF res.val.t = "Real" THEN [val |-> res.val, fd |-> p, cur |-> cur,
            err |-> ""]
    ELSE
    Let(nextToken(f, p, cur, TRUE, FALSE),
        LAMBDA t2 :
    IF t2.err # "" THEN [val |-> NullPtr, fd |-> t2.fd, cur |-> t2.cur,
            err |-> t2.err]
    ELSE
    Let(nextToken(f, t2.fd, t2.cur, TRUE, FALSE),
        LAMBDA t3 :
    IF t3.err # "" THEN [val |-> NullPtr, fd |-> t3.fd, cur |-> t3.cur,
            err |-> t3.err]
    ELSE ReferenceOrRollback(res.val, p, t2, t3))))

-----------------------------------------------------------------------------
(* Value parser.  Every parse operator takes the file f, the cursor p and  *)
(* curOffset cur, and returns the cursor and curOffset it leaves and the   *)
(* exception it raised (err, "" for none).                                 *)

\* Parser::parseName
parseName(token) ==
    IF token = <<>> \/ token[1] # "/"
    THEN [val |-> NullPtr, err |-> "INVALID_NAME"]
    ELSE [val |-> Name(token), err |-> ""]

\* Parser::parseString: the raw bytes up to the matching ')'
RECURSIVE StringLoop(_, _, _, _, _)
StringLoop(f, p, res, escaped, parenthesis_count) ==
    IF p >= Len(f) THEN [val |-> String(res), fd |-> p]
    ELSE
    Let([c |-> f[p + 1],
         n |-> IF f[p + 1] = "(" /\ ~escaped THEN parenthesis_count + 1
               ELSE IF f[p + 1] = ")" /\ ~escaped THEN parenthesis_count - 1
               ELSE parenthesis_count],
        LAMBDA a :
            IF a.c = ")" /\ ~escaped /\ a.n = 0
            THEN [val |-> String(res), fd |-> p + 1]
            ELSE Let([res |-> Append(res, a.c), q |-> p + 1,
                      esc |-> IF a.c = "\\" /\ escaped THEN FALSE ELSE a.c = "\\"],
                     LAMBDA b : StringLoop(f, b.q, b.res, b.esc, a.n)))

parseString(f, p) == StringLoop(f, p, <<>>, FALSE, 1)

\* Parser::parseHexaString: the raw bytes up to '>' or the end of the file
parseHexaString(f, p) ==
    LET ends == {q \in (p + 1)..Len(f) : f[q] = ">"}
        q == IF ends = {} THEN Len(f) + 1
             ELSE CHOOSE e \in ends : \A r \in ends : e <= r
        res == SubSeq(f, p + 1, q - 1)
        fd2 == IF ends = {} THEN Len(f) ELSE q
    IN
    IF Len(res) % 2 # 0
    THEN [val |-> NullPtr, fd |-> fd2, err |-> "INVALID_HEXASTRING"]
    ELSE [val |-> HexaString(res), fd |-> fd2, err |-> ""]

\* sizeof(buffer) in parseStream
StreamBufferSize == 4096

\* readline's "Empty line" branch: line ends met before any character is
\* stored are consumed without being counted
RECURSIVE SkipEmptyLines(_, _)
SkipEmptyLines(f, p) ==
    IF p < Len(f) /\ f[p + 1] \in EOL THEN SkipEmptyLines(f, p + 1) ELSE p

\* where readline's loop stops once it stores characters from offset s: the
\* first offset that is followed by a line end, or where size characters
\* are stored, or where the file ends
LineStop(f, s, size) ==
    LET last == IF s + size < Len(f) THEN s + size ELSE Len(f)
        stops == {q \in s..last : q = last \/ f[q + 1] \in EOL}
    IN  CHOOSE q \in stops : \A r \in stops : q <= r

\* readline(fd, buffer, size, exceptionOnEOF): the characters stored, the
\* cursor after the call, and whether the end of the file was hit.  The loop
\* tests size before it reads, so a full buffer stops it without consuming
\* the line end that follows.
readline(f, p, size, buf) ==
    IF size = 0 THEN [buf |-> buf, fd |-> p, eof |-> FALSE]
    ELSE Let(IF buf = <<>> THEN SkipEmptyLines(f, p) ELSE p, LAMBDA s :
         IF s >= Len(f) THEN [buf |-> buf, fd |-> s, eof |-> TRUE]
         ELSE Let(LineStop(f, s, size), LAMBDA e :
              IF e = s + size
              THEN [buf |-> buf \o SubSeq(f, s + 1, e), fd |-> e,
                    eof |-> FALSE]
              ELSE IF e = Len(f)
              THEN [buf |-> buf \o SubSeq(f, s + 1, e), fd |-> e,
                    eof |-> TRUE]
              ELSE [buf |-> buf \o SubSeq(f, s + 1, e), fd |-> e + 1,
                    eof |-> FALSE]))

\* memmem(buffer, ret, "endstream", 9): the 0-based position, or -1
memmem(buf, w) ==
    LET hits == {i \in 0..(Len(buf) - Len(w)) : IsPrefixAt(buf, i, w)} IN
    IF hits = {} THEN 0 - 1 ELSE CHOOSE i \in hits : \A j \in hits : i <= j

\* the scanning loop of parseStream
RECURSIVE StreamScan(_, _, _)
StreamScan(f, p, startOffset) ==
    Let(readline(f, p, StreamBufferSize, <<>>),
        LAMBDA r :
    IF r.eof THEN [val |-> NullPtr, fd |-> r.fd, err |-> "TRUNCATED_FILE"]
    ELSE
    Let(memmem(r.buf, KwEndstream),
        LAMBDA pos :
    IF pos >= 0
    THEN Let(r.fd - (Len(r.buf) - pos - 9),
             LAMBDA q : [val |-> Stream(startOffset, q - 10), fd |-> q,
                     err |-> ""])
    ELSE StreamScan(f, r.fd, startOffset)))

\* the direct jump of parseStream: Length is an Integer and there is no Filter
StreamJump(f, p, cur, Length) ==
    \* lseek to a negative offset fails and leaves the cursor where it is
    Let(nextToken(f, IF p + Length.value < 0 THEN p ELSE p + Length.value,
                  cur, TRUE, FALSE),
        LAMBDA t :
            IF t.err # "" THEN [val |-> NullPtr, fd |-> t.fd, cur |-> t.cur,
                    err |-> t.err]
            ELSE IF t.tok = KwEndstream
            THEN [val |-> Stream(p, p + Length.value), fd |-> t.fd,
                    cur |-> t.cur,
                  err |-> ""]
            ELSE Let(StreamScan(f, p, p),
                     LAMBDA s : [val |-> s.val, fd |-> s.fd, cur |-> t.cur,
                                 err |-> s.err]))

\* Parser::parseStream; od is the enclosing object's dictionary
parseStream(f, p, cur, od) ==
    IF ~DictHas(od, KeyLength)
    THEN [val |-> NullPtr, fd |-> p, cur |-> cur, err |-> "INVALID_STREAM"]
    ELSE
    Let(DictGet(od, KeyLength),
        LAMBDA Length :
    IF Length.t = "nullptr"
    THEN [val |-> NullPtr, fd |-> p, cur |-> cur, err |-> "null_dereference"]
    ELSE IF ~DictHas(od, KeyFilter) /\ Length.t = "Integer"
    THEN StreamJump(f, p, cur, Length)
    ELSE Let(StreamScan(f, p, p),
             LAMBDA s : [val |-> s.val, fd |-> s.fd, cur |-> cur,
                     err |-> s.err]))

RECURSIVE parseType(_, _, _, _, _)
RECURSIVE ArrayLoop(_, _, _, _, _)
RECURSIVE parseDictionary(_, _, _, _, _, _)

\* Parser::parseType
parseType(f, token, p, cur, od) ==
    IF token = <<"<", "<">>
    THEN Let(parseDictionary(f, p, cur, <<>>, od, FALSE),
             LAMBDA d : [val |-> Dictionary(d.map), fd |-> d.fd, cur |-> d.cur,
                         err |-> d.err])
    ELSE IF token = <<"[">> THEN ArrayLoop(f, p, cur, od, <<>>)
    ELSE IF token = <<"(">>
    THEN Let(parseString(f, p),
             LAMBDA r : [val |-> r.val, fd |-> r.fd, cur |-> cur, err |-> ""])
    ELSE IF token = <<"<">>
    THEN Let(parseHexaString(f, p),
             LAMBDA r : [val |-> r.val, fd |-> r.fd, cur |-> cur,
                     err |-> r.err])
    ELSE IF token = KwStream THEN parseStream(f, p, cur, od)
    ELSE IF token[1] \in DigitSet \ {"0"} THEN parseNumberOrReference(f,
            token, p, cur)
    ELSE IF token[1] = "/"
    THEN Let(parseName(token),
             LAMBDA r : [val |-> r.val, fd |-> p, cur |-> cur, err |-> r.err])
    ELSE IF token[1] \in {"+", "-"}
    THEN Let(parseSignedNumber(token),
             LAMBDA r : [val |-> r.val, fd |-> p, cur |-> cur, err |-> r.err])
    ELSE IF token[1] \in {"0", "."}
    THEN Let(parseNumber(token),
             LAMBDA r : [val |-> r.val, fd |-> p, cur |-> cur, err |-> r.err])
    ELSE IF token = KwTrue THEN [val |-> Boolean(TRUE), fd |-> p, cur |-> cur,
            err |-> ""]
    ELSE IF token = KwFalse THEN [val |-> Boolean(FALSE), fd |-> p,
            cur |-> cur, err |-> ""]
    ELSE IF token = KwNull THEN [val |-> Null, fd |-> p, cur |-> cur,
            err |-> ""]
    ELSE [val |-> NullPtr, fd |-> p, cur |-> cur, err |-> "INVALID_TOKEN"]

\* Parser::parseArray (its while loop; res is the array so far)
ArrayLoop(f, p, cur, od, res) ==
    Let(nextToken(f, p, cur, TRUE, FALSE),
        LAMBDA t :
    IF t.err # "" THEN [val |-> Array(res), fd |-> t.fd, cur |-> t.cur,
            err |-> t.err]
    ELSE IF t.tok = <<"]">>
    THEN [val |-> Array(res), fd |-> t.fd, cur |-> t.cur, err |-> ""]
    ELSE
    Let(parseType(f, t.tok, t.fd, t.cur, od),
        LAMBDA v :
    IF v.err # "" THEN [val |-> Array(res), fd |-> v.fd, cur |-> v.cur,
            err |-> v.err]
    ELSE Let(Append(res, v.val),
             LAMBDA res2 : ArrayLoop(f, v.fd, v.cur, od, res2))))

parseArray(f, p, cur, od) == ArrayLoop(f, p, cur, od, <<>>)

\* Parser::parseDictionary(object, dict): dict is the map being filled;
\* top says that dict is the object's own dictionary, which nested
\* parseStream calls look Length up in; otherwise they look in od
parseDictionary(f, p, cur, dict, od, top) ==
    Let(nextToken(f, p, cur, TRUE, FALSE),
        LAMBDA t :
    IF t.err # "" THEN [map |-> dict, fd |-> t.fd, cur |-> t.cur, err |-> t.err]
    ELSE IF t.tok = <<">", ">">>
    THEN [map |-> dict, fd |-> t.fd, cur |-> t.cur, err |-> ""]
    ELSE IF parseName(t.tok).err # ""
    THEN [map |-> dict, fd |-> t.fd, cur |-> t.cur,
            err |-> parseName(t.tok).err]
    ELSE
    Let(nextToken(f, t.fd, t.cur, TRUE, FALSE),
        LAMBDA t2 :
    IF t2.err # "" THEN [map |-> dict, fd |-> t2.fd, cur |-> t2.cur,
            err |-> t2.err]
    ELSE IF t2.tok = <<">", ">">>
    THEN [map |-> DictPut(dict, NameValue(parseName(t.tok).val), NullPtr),
          fd |-> t2.fd, cur |-> t2.cur, err |-> ""]
    ELSE
    Let(parseType(f, t2.tok, t2.fd, t2.cur, IF top THEN dict ELSE od),
        LAMBDA v :
    IF v.err # "" THEN [map |-> dict, fd |-> v.fd, cur |-> v.cur, err |-> v.err]
    ELSE Let(DictPut(dict, NameValue(parseName(t.tok).val), v.val),
             LAMBDA dict2 : parseDictionary(f, v.fd, v.cur, dict2, od, top)))))

-----------------------------------------------------------------------------
(* Objects *)

\* Object(objectId, generationNumber, offset): a parsed object is not new,
\* is not indirect and counts as used until the xref table says otherwise
Object(id, gen, off) ==
    [objectId |-> id, generationNumber |-> gen, offset |-> off,
     dictionary |-> <<>>, data |-> <<>>, indirectOffset |-> 0,
     used |-> TRUE, isNew |-> FALSE]

\* Object::isIndirect
isIndirect(o) == o.indirectOffset # 0

\* the while loop of Parser::parseObject, filling object o
RECURSIVE ObjectLoop(_, _, _, _)
ObjectLoop(f, p, cur, o) ==
    Let(nextToken(f, p, cur, TRUE, FALSE),
        LAMBDA t :
    IF t.err # "" THEN [obj |-> o, fd |-> t.fd, cur |-> t.cur, err |-> t.err]
    ELSE IF t.tok = KwEndobj THEN [obj |-> o, fd |-> t.fd, cur |-> t.cur,
            err |-> ""]
    ELSE IF t.tok = <<"<", "<">>
    THEN Let(parseDictionary(f, t.fd, t.cur, o.dictionary, o.dictionary, TRUE),
             LAMBDA d :
                 Let([o EXCEPT !.dictionary = d.map],
                     LAMBDA o2 :
                         IF d.err # ""
                         THEN [obj |-> o2, fd |-> d.fd, cur |-> d.cur,
                                 err |-> d.err]
                         ELSE ObjectLoop(f, d.fd, d.cur, o2)))
    ELSE IF t.tok[1] \in DigitSet \ {"0"}
    THEN Let(tokenToNumber(t.tok, NUL),
             LAMBDA n :
                 IF n.err # ""
                 THEN [obj |-> o, fd |-> t.fd, cur |-> t.cur, err |-> n.err]
                 ELSE IF n.val.t # "Integer"
                 THEN [obj |-> o, fd |-> t.fd, cur |-> t.cur,
                         err |-> "INVALID_OBJECT"]
                 ELSE Let([o EXCEPT !.indirectOffset = n.val.value],
                          LAMBDA o2 : ObjectLoop(f, t.fd, t.cur, o2)))
    ELSE Let(parseType(f, t.tok, t.fd, t.cur, o.dictionary),
             LAMBDA v :
                 IF v.err # ""
                 THEN [obj |-> o, fd |-> v.fd, cur |-> v.cur, err |-> v.err]
                 ELSE Let([o EXCEPT !.data = Append(o.data, v.val)],
                          LAMBDA o2 : ObjectLoop(f, v.fd, v.cur, o2))))

\* _objects.push_back(object)
PushObject(objs, o) == Append(objs, o)

\* parseObject once the object id is read: the generation number, the obj
\* keyword and the body
ObjectAfterId(f, id, offset, p, cur, objs) ==
    Let(nextToken(f, p, cur, TRUE, FALSE),
        LAMBDA t :
    IF t.err # "" THEN [objects |-> objs, fd |-> t.fd, cur |-> t.cur,
            err |-> t.err]
    ELSE
    Let(stoi(t.tok),
        LAMBDA gen :
    IF gen.err = "invalid_argument"
    THEN [objects |-> objs, fd |-> t.fd, cur |-> t.cur,
            err |-> "INVALID_OBJECT"]
    ELSE IF gen.err # ""
    THEN [objects |-> objs, fd |-> t.fd, cur |-> t.cur, err |-> gen.err]
    ELSE
    Let(nextToken(f, t.fd, t.cur, TRUE, FALSE),
        LAMBDA t2 :
    IF t2.err # "" THEN [objects |-> objs, fd |-> t2.fd, cur |-> t2.cur,
            err |-> t2.err]
    ELSE IF t2.tok # KwObj
    THEN [objects |-> objs, fd |-> t2.fd, cur |-> t2.cur,
            err |-> "INVALID_OBJECT"]
    ELSE
    Let(ObjectLoop(f, t2.fd, t2.cur, Object(id, gen.v, offset)),
        LAMBDA r : [objects |-> PushObject(objs, r.obj), fd |-> r.fd,
                cur |-> r.cur,
                    err |-> r.err]))))

\* Parser::parseObject(token), called with curOffset = cur on the token
parseObject(f, token, p, cur, objs) ==
    Let(stoi(token),
        LAMBDA id :
            IF id.err = "invalid_argument"
            THEN [objects |-> objs, fd |-> p, cur |-> cur,
                    err |-> "INVALID_OBJECT"]
            ELSE IF id.err # ""
            THEN [objects |-> objs, fd |-> p, cur |-> cur, err |-> id.err]
            ELSE ObjectAfterId(f, id.v, cur, p, cur, objs))

\* Parser::getObject: the index of the first object with this identity, or 0
getObject(objs, id, gen) ==
    LET hits == {i \in 1..Len(objs) : objs[i].objectId = id
                                      /\ objs[i].generationNumber = gen}
    IN IF hits = {} THEN 0 ELSE CHOOSE i \in hits : \A j \in hits : i <= j

-----------------------------------------------------------------------------
(* Xref / trailer reader *)

\* Parser::parseStartXref
parseStartXref(f, p, cur) ==
    Let(nextToken(f, p, cur, TRUE, FALSE),
        LAMBDA t1 :
    IF t1.err # "" THEN [fd |-> t1.fd, cur |-> t1.cur, err |-> t1.err]
    ELSE
    Let(nextToken(f, t1.fd, t1.cur, FALSE, TRUE),
        LAMBDA t2 :
    IF ~IsPrefixAt(t2.tok, 0, KwEOF)
    THEN [fd |-> t2.fd, cur |-> t2.cur, err |-> "INVALID_TRAILER"]
    ELSE IF Len(t2.tok) > 5
    THEN [fd |-> t2.cur + 5, cur |-> t2.cur, err |-> ""]
    ELSE [fd |-> t2.fd, cur |-> t2.cur, err |-> ""]))

\* parseTrailer after the trailer dictionary d is read
TrailerAfterDictionary(f, d) ==
    Let(nextToken(f, d.fd, d.cur, TRUE, FALSE),
        LAMBDA t2 :
    IF t2.err # ""
    THEN [trailer |-> d.map, fd |-> t2.fd, cur |-> t2.cur, err |-> t2.err,
            res |-> FALSE]
    ELSE IF t2.tok # KwStartxref
    THEN [trailer |-> d.map, fd |-> t2.cur, cur |-> t2.cur, err |-> "",
            res |-> FALSE]
    ELSE Let(parseStartXref(f, t2.fd, t2.cur),
             LAMBDA s : [trailer |-> d.map, fd |-> s.fd, cur |-> s.cur,
                     err |-> s.err,
                         res |-> s.err = ""]))

\* Parser::parseTrailer; trl is the trailer dictionary so far
parseTrailer(f, p, cur, trl) ==
    Let(nextToken(f, p, cur, TRUE, FALSE),
        LAMBDA t :
    IF t.err # ""
    THEN [trailer |-> trl, fd |-> t.fd, cur |-> t.cur, err |-> t.err,
            res |-> FALSE]
    ELSE IF t.tok # <<"<", "<">>
    THEN [trailer |-> trl, fd |-> t.fd, cur |-> t.cur,
            err |-> "INVALID_TRAILER",
          res |-> FALSE]
    ELSE
    Let(parseDictionary(f, t.fd, t.cur, trl, trl, TRUE),
        LAMBDA d :
    IF d.err # ""
    THEN [trailer |-> d.map, fd |-> d.fd, cur |-> d.cur, err |-> d.err,
            res |-> FALSE]
    ELSE TrailerAfterDictionary(f, d)))

XRefValue(id, off, gen, u) ==
    [objectId |-> id, offset |-> off, generationNumber |-> gen, used |-> u,
     object |-> 0]

\* one xref entry line: tokens t0 and t1 are read, t0 has length 10
XrefEntry(f, t0, t1, table, curId) ==
    Let([t2 |-> nextToken(f, t1.fd, t1.cur, TRUE, FALSE),
         off |-> stoi(t0.tok), gen |-> stoi(t1.tok)],
        LAMBDA a :
            IF a.t2.err # ""
            THEN [table |-> table, fd |-> a.t2.fd, cur |-> a.t2.cur,
                    err |-> a.t2.err]
            ELSE IF a.off.err # ""
            THEN [table |-> table, fd |-> a.t2.fd, cur |-> a.t2.cur,
                    err |-> a.off.err]
            ELSE IF a.gen.err # ""
            THEN [table |-> table, fd |-> a.t2.fd, cur |-> a.t2.cur,
                    err |-> a.gen.err]
            ELSE [table |-> Append(table, XRefValue(curId, a.off.v, a.gen.v,
                                                    a.t2.tok = <<"n">>)),
                  fd |-> a.t2.fd, cur |-> a.t2.cur, err |-> ""])

\* the while loop of Parser::parseXref, up to the trailer keyword
RECURSIVE XrefLoop(_, _, _, _, _)
XrefLoop(f, p, cur, table, curId) ==
    Let(nextToken(f, p, cur, TRUE, FALSE),
        LAMBDA t0 :
    IF t0.err # "" THEN [table |-> table, fd |-> t0.fd, cur |-> t0.cur,
            err |-> t0.err]
    ELSE IF t0.tok = KwTrailer
    THEN [table |-> table, fd |-> t0.fd, cur |-> t0.cur, err |-> ""]
    ELSE
    Let(nextToken(f, t0.fd, t0.cur, TRUE, FALSE),
        LAMBDA t1 :
    IF t1.err # "" THEN [table |-> table, fd |-> t1.fd, cur |-> t1.cur,
            err |-> t1.err]
    ELSE IF Len(t0.tok) = 10
    THEN Let(XrefEntry(f, t0, t1, table, curId),
             LAMBDA e : IF e.err # "" THEN e
                        ELSE Let(curId + 1,
                                 LAMBDA n : XrefLoop(f, e.fd, e.cur, e.table,
                                         n)))
    ELSE Let(stoi(t0.tok),
             LAMBDA first :
                 IF first.err # ""
                 THEN [table |-> table, fd |-> t1.fd, cur |-> t1.cur,
                         err |-> first.err]
                 ELSE XrefLoop(f, t1.fd, t1.cur, table, first.v))))

\* Parser::parseXref, called with curOffset = cur on the xref keyword
parseXref(f, p, cur, table, trl) ==
    Let(XrefLoop(f, p, cur, table, 0),
        LAMBDA x :
    IF x.err # ""
    THEN [xrefOffset |-> cur, table |-> x.table, trailer |-> trl,
          fd |-> x.fd, cur |-> x.cur, err |-> x.err, res |-> FALSE]
    ELSE Let(parseTrailer(f, x.fd, x.cur, trl),
             LAMBDA r : [xrefOffset |-> cur, table |-> x.table,
                     trailer |-> r.trailer,
                         fd |-> r.fd, cur |-> r.cur, err |-> r.err,
                                 res |-> r.res]))

\* Parser::parseHeader
parseHeader(f) ==
    Let(readline(f, 0, 5, <<>>), LAMBDA sig :
    Let(readline(f, sig.fd, 1, <<>>), LAMBDA major :
    Let(readline(f, major.fd, 1, <<>>), LAMBDA dot :
    Let(readline(f, dot.fd, 1, <<>>), LAMBDA minor :
    IF sig.buf # KwPDF \/ major.buf = <<>> \/ major.buf[1] \notin DigitSet
       \/ dot.buf # <<".">> \/ minor.buf = <<>> \/ minor.buf[1] \notin DigitSet
    THEN [version |-> <<0, 0>>, fd |-> minor.fd, cur |-> 0,
            err |-> "INVALID_HEADER"]
    ELSE Let(finishLine(f, minor.fd),
             LAMBDA q : [version |-> <<DigitVal(major.buf[1]),
                     DigitVal(minor.buf[1])>>,
                         fd |-> q, cur |-> q, err |-> ""])))))

\* a synchronization in which the first matching entry decides
SyncEntryFirstWins(d, e) ==
    Let(getObject(d.objects, e.objectId, e.generationNumber),
        LAMBDA k :
            IF k = 0 THEN [objects |-> d.objects, table |-> Append(d.table, e)]
            ELSE [objects |-> IF \E j \in 1..Len(d.table) : d.table[j].object = k
                              THEN d.objects
                              ELSE [d.objects EXCEPT ![k].used = e.used],
                  table |-> Append(d.table, [e EXCEPT !.object = k])])

\* the body of the loop that ends Parser::parse, for xref entry e: d holds
\* the objects and the entries done so far
SyncEntry(d, e) ==
    Let(getObject(d.objects, e.objectId, e.generationNumber),
        LAMBDA k :
            IF k = 0 THEN [objects |-> d.objects, table |-> Append(d.table, e)]
            ELSE [objects |-> [d.objects EXCEPT ![k].used = e.used],
                  table |-> Append(d.table, [e EXCEPT !.object = k])])

\* "Synchronize xref table with parsed objects"
RECURSIVE SyncLoop(_, _, _)
SyncLoop(d, table, i) ==
    IF i > Len(table) THEN d
    ELSE Let(SyncEntry(d, table[i]), LAMBDA d2 : SyncLoop(d2, table, i + 1))

Synchronize(objs, table) == SyncLoop([objects |-> objs, table |-> <<>>],
        table, 1)

-----------------------------------------------------------------------------
(* Serialization *)

\* std::setw(w) with std::setfill('0')
setw(w, txt) ==
    IF Len(txt) >= w THEN txt ELSE [i \in 1..(w - Len(txt)) |-> "0"] \o txt

RECURSIVE ValueStr(_)
RECURSIVE ArrayItemsStr(_, _, _)
RECURSIVE DictEntriesStr(_, _, _)

\* Array::str: its loop, from the i-th item on; res is the text so far
ArrayItemsStr(xs, i, res) ==
    IF i > Len(xs) THEN res
    ELSE Let((IF Len(res) > 1 THEN res \o <<" ">> ELSE res) \o ValueStr(xs[i]),
             LAMBDA res2 : ArrayItemsStr(xs, i + 1, res2))

ArrayStr(x) == ArrayItemsStr(x.items, 1, <<"[">>) \o <<"]">>

\* Dictionary::str: its loop over the map, in the map's order, from the
\* i-th entry on; res is the text so far
DictEntriesStr(m, i, res) ==
    IF i > Len(m) THEN res
    ELSE Let(res \o <<"/">> \o m[i].k
             \o (IF m[i].v.t = "nullptr" THEN <<>> ELSE ValueStr(m[i].v)),
             LAMBDA res2 : DictEntriesStr(m, i + 1, res2))

DictionaryStr(m) == DictEntriesStr(m, 1, <<"<", "<">>) \o <<">", ">", "\n">>

\* Name::str, String::str, HexaString::str
NameStr(x) == x.name
StringStr(x) == <<"(">> \o x.str \o <<")">>
HexaStringStr(x) == <<"<">> \o x.hex \o <<">">>

\* DataType::str, for the variants the written documents hold
ValueStr(x) ==
    CASE x.t = "Integer" -> IntegerStr(x)
      [] x.t = "Name" -> NameStr(x)
      [] x.t = "String" -> StringStr(x)
      [] x.t = "HexaString" -> HexaStringStr(x)
      [] x.t = "Array" -> ArrayStr(x)
      [] x.t = "Dictionary" -> DictionaryStr(x.map)

\* Object::str
ObjectStr(o) ==
    to_string(o.objectId) \o <<" ">> \o to_string(o.generationNumber)
    \o <<" ", "o", "b", "j", "\n">>
    \o (IF isIndirect(o)
        THEN <<" ", " ", " ">> \o to_string(o.indirectOffset) \o <<"\n">>
        ELSE (IF o.dictionary # <<>> THEN DictionaryStr(o.dictionary) ELSE <<>>)
             \o Concat([i \in 1..Len(o.data) |-> ValueStr(o.data[i])]))
    \o <<"e", "n", "d", "o", "b", "j", "\n">>

-----------------------------------------------------------------------------
(* Writers.  An output descriptor is [bytes, pos]: the file's bytes and   *)
(* the descriptor's offset, which lseek(newFd, 0, SEEK_CUR) returns.       *)

\* open(O_WRONLY|O_APPEND|O_CREAT): the offset starts at 0
OpenAppend(f) == [bytes |-> f, pos |-> 0]
\* open(O_WRONLY|O_CREAT|O_TRUNC)
OpenTrunc == [bytes |-> <<>>, pos |-> 0]
\* ::write: under O_APPEND it writes at the end whatever the offset is; a
\* truncated file is written in sequence, which is the same thing
\* (writing no byte moves nothing)
Write(h, txt) ==
    IF txt = <<>> THEN h
    ELSE Let(h.bytes \o txt, LAMBDA b : [bytes |-> b, pos |-> Len(b)])

\* a writeUpdate that writes nothing before the objects
UpdateLeadNone == <<>>

\* ::write(newFd, "\r", 1), the first write of writeUpdate
UpdateLead == <<"\r">>

\* one xref subsection of one entry, as both writers emit it
XrefEntryStr(o, offset, flag) ==
    to_string(o.objectId) \o <<" ", "1", "\n">>
    \o setw(10, to_string(offset)) \o <<" ">>
    \o setw(5, to_string(o.generationNumber)) \o <<" ", flag, "\r", "\n">>

\* the object loop of writeUpdate from the i-th object on; w holds the
\* descriptor h, the xref text so far, nbNewObjects and curOffset
RECURSIVE UpdateObjects(_, _, _)
UpdateObjects(objs, i, w) ==
    IF i > Len(objs) THEN w
    ELSE IF ~objs[i].isNew THEN UpdateObjects(objs, i + 1, w)
    ELSE Let([h |-> Write(w.h, ObjectStr(objs[i])),
              xref |-> w.xref \o XrefEntryStr(objs[i], w.h.pos, "n"),
              nb |-> w.nb + 1, cur |-> w.h.pos],
             LAMBDA w2 : UpdateObjects(objs, i + 1, w2))

StartxrefStr(newXrefOffset) ==
    KwStartxref \o <<"\n">> \o to_string(newXrefOffset) \o <<"\n">> \o KwEOF

\* the end of writeUpdate, when there are new objects: the xref section,
\* the trailer with its Prev, startxref
UpdateTail(r, trl, xoff) ==
    Let(addData(DictDel(trl, KeyPrev), KeyPrev, Integer(xoff, FALSE)),
        LAMBDA trl2 :
            [bytes |-> r.h.bytes \o r.xref \o KwTrailer \o <<"\n">>
                       \o DictionaryStr(trl2) \o StartxrefStr(r.h.pos),
             cur |-> r.cur, trailer |-> trl2, wrote |-> TRUE,
             newXrefOffset |-> r.h.pos])

\* Parser::writeUpdate on a file holding f: the file's bytes afterwards,
\* and curOffset and the trailer as the call leaves them
writeUpdate(f, objs, trl, xoff, cur) ==
    Let(UpdateObjects(objs, 1, [h |-> Write(OpenAppend(f), UpdateLead),
                                xref |-> KwXref \o <<"\n">>, nb |-> 0,
                                        cur |-> cur]),
        LAMBDA r :
            IF r.nb = 0
            THEN [bytes |-> r.h.bytes, cur |-> r.cur, trailer |-> trl,
                    wrote |-> FALSE,
                  newXrefOffset |-> 0 - 1]
            ELSE UpdateTail(r, trl, xoff))

\* the object loop of the full write, from the i-th object on
RECURSIVE FullObjects(_, _, _)
FullObjects(objs, i, w) ==
    IF i > Len(objs) THEN w
    ELSE Let([h |-> Write(w.h, ObjectStr(objs[i])),
              xref |-> w.xref \o XrefEntryStr(objs[i], w.h.pos,
                                              IF objs[i].used THEN "n" ELSE "f"),
              nb |-> w.nb + 1, cur |-> w.h.pos],
             LAMBDA w2 : FullObjects(objs, i + 1, w2))

\* the header of the full write; the four bytes 0xe2 0xe3 0xcf 0xd3 are
\* the characters "e2", "e3", "cf", "d3"
FullHeader(ver) ==
    KwPDF \o to_string(ver[1]) \o <<".">> \o to_string(ver[2])
    \o <<"\r", "%", "e2", "e3", "cf", "d3", "\r", "\n">>

\* the head of the xref section of the full write
FullXrefHead ==
    KwXref \o <<"\n", "0", " ", "1", " ", "f", "\r", "\n">>
    \o <<"0", "0", "0", "0", "0", "0", "0", "0", "0", "0", " ",
         "6", "5", "5", "3", "5", " ", "f", "\r", "\n">>

\* the trailer dictionary the full write emits
FullTrailer(trl, nbObjects) ==
    DictDel(addData(DictDel(DictDel(trl, KeyPrev), KeySize), KeySize,
                    Integer(nbObjects, FALSE)),
            KeyXRefStm)

\* Parser::write(filename, false)
writeFull(objs, trl, ver, cur) ==
    Let(FullObjects(objs, 1, [h |-> Write(OpenTrunc, FullHeader(ver)),
                              xref |-> FullXrefHead, nb |-> 1, cur |-> cur]),
        LAMBDA r :
            Let(FullTrailer(trl, r.nb),
                LAMBDA trl2 :
                    [bytes |-> r.h.bytes \o r.xref \o KwTrailer \o <<"\n">>
                               \o DictionaryStr(trl2) \o StartxrefStr(r.h.pos),
                     cur |-> r.cur, trailer |-> trl2]))

-----------------------------------------------------------------------------
(* Input files: a header line and up to MaxChunks sections *)

MaxChunks == 3
MaxAdds == 2
MaxUpdates == 2

\* the header line
FileHeader ==
    <<"%", "P", "D", "F", "-", "1", ".", "4", "\n">>

\* an object with a dictionary
ChunkObj1 ==
    <<"1", " ", "0", " ", "o", "b", "j", "<", "<", "/", "B", " ", "1", "/",
      "A", " ", "+", "2", ">", ">", "e", "n", "d", "o", "b", "j", "\n">>

\* an object with a data list
ChunkObj2 ==
    <<"2", " ", "0", " ", "o", "b", "j", "\n", "[", "/", "N", " ", "(",
      "s", ")", "]", "\n", "e", "n", "d", "o", "b", "j", "\n">>

\* an xref section with a used entry for object 1 and a full trailer
ChunkXrefN ==
    <<"x", "r", "e", "f", "\n", "1", " ", "1", "\n", "0", "0", "0", "0",
      "0", "0", "0", "0", "0", "9", " ", "0", "0", "0", "0", "0", " ", "n",
      "\r", "\n", "t", "r", "a", "i", "l", "e", "r", "\n", "<", "<", "/",
      "S", "i", "z", "e", " ", "2", ">", ">", "\n", "s", "t", "a", "r",
      "t", "x", "r", "e", "f", "\n", "9", "\n", "%", "%", "E", "O", "F",
      "\n">>

\* an xref section with a free entry for object 1; its trailer has no
\* startxref
ChunkXrefF ==
    <<"x", "r", "e", "f", "\n", "1", " ", "1", "\n", "0", "0", "0", "0",
      "0", "0", "0", "0", "0", "9", " ", "0", "0", "0", "0", "0", " ", "f",
      "\r", "\n", "t", "r", "a", "i", "l", "e", "r", "\n", "<", "<", "/",
      "P", "r", "e", "v", " ", "9", "/", "I", "n", "f", "o", "/", "I", ">",
      ">", "\n">>

Chunks == {ChunkObj1, ChunkObj2, ChunkXrefN, ChunkXrefF}

InputFiles ==
    {FileHeader \o Concat(cs) : cs \in UNION {[1..n -> Chunks] : n \in 0..MaxChunks}}

\* an uninitialized off_t member may hold anything; two values stand for it
UninitOffsets == {0, 5}

\* the objects a caller adds (new = true): the k-th has id FirstNewId + k
FirstNewId == 7
NewObject(id) ==
    [Object(id, 0, 0) EXCEPT !.isNew = TRUE,
                             !.dictionary = <<[k |-> <<"Z">>,
                                     v |-> Integer(id, FALSE)]>>]

-----------------------------------------------------------------------------
(* The document life cycle: parse a file, add objects, write.              *)

NoHist ==
    [phase |-> 1, first |-> <<>>, dirty |-> FALSE, op |-> "none",
     fileBefore |-> <<>>, lastXref |-> 0 - 1, prevXref |-> 0 - 1,
     wrote |-> FALSE, adds |-> 0, updates |-> 0]

\* a Parser just constructed, about to parse the file
Init ==
    /\ file \in InputFiles
    /\ fd = 0
    /\ curOffset = 0
    /\ xrefOffset \in UninitOffsets
    /\ objects = <<>>
    /\ xrefTable = <<>>
    /\ trailer = <<>>
    /\ version = <<0, 0>>
    /\ secondLine = TRUE
    /\ pc = "start"
    /\ err = ""
    /\ hist = NoHist
    /\ arg = <<>>
    /\ out = <<>>

\* Parser::parse up to its loop: parseHeader and lseek(fd, curOffset)
ParseHeader ==
    /\ pc = "start"
    /\ \E r \in {parseHeader(file)} :
          /\ fd' = r.fd
          /\ curOffset' = r.cur
          /\ version' = r.version
          /\ err' = r.err
          /\ pc' = IF r.err # "" THEN "error" ELSE "loop"
    /\ secondLine' = TRUE
    /\ hist' = [hist EXCEPT !.op = "parse"]
    /\ UNCHANGED <<file, xrefOffset, objects, xrefTable, trailer, arg, out>>

\* the branches of the while loop of Parser::parse on token t
TokenEnd(t) ==
    /\ pc' = "sync"
    /\ fd' = t.fd
    /\ curOffset' = t.cur
    /\ UNCHANGED <<xrefOffset, objects, xrefTable, trailer, secondLine, err,
            hist>>

TokenXref(t) ==
    \E r \in {parseXref(file, t.fd, t.cur, xrefTable, trailer)} :
        /\ xrefOffset' = r.xrefOffset
        /\ xrefTable' = r.table
        /\ trailer' = r.trailer
        /\ fd' = r.fd
        /\ curOffset' = r.cur
        /\ err' = r.err
        /\ pc' = IF r.err # "" THEN "error" ELSE "loop"
        /\ secondLine' = FALSE
        /\ hist' = [hist EXCEPT !.lastXref = t.cur]
        /\ UNCHANGED objects

TokenObject(t) ==
    \E r \in {parseObject(file, t.tok, t.fd, t.cur, objects)} :
        /\ objects' = r.objects
        /\ fd' = r.fd
        /\ curOffset' = r.cur
        /\ err' = r.err
        /\ pc' = IF r.err # "" THEN "error" ELSE "loop"
        /\ secondLine' = FALSE
        /\ UNCHANGED <<xrefOffset, xrefTable, trailer, hist>>

TokenStartXref(t) ==
    \E r \in {parseStartXref(file, t.fd, t.cur)} :
        /\ fd' = r.fd
        /\ curOffset' = r.cur
        /\ err' = r.err
        /\ pc' = IF r.err # "" THEN "error" ELSE "loop"
        /\ secondLine' = FALSE
        /\ UNCHANGED <<xrefOffset, objects, xrefTable, trailer, hist>>

TokenOther(t) ==
    IF ~secondLine
    THEN /\ err' = "INVALID_LINE"
         /\ pc' = "error"
         /\ fd' = t.fd
         /\ curOffset' = t.cur
         /\ UNCHANGED <<xrefOffset, objects, xrefTable, trailer, secondLine,
                 hist>>
    ELSE /\ fd' = finishLine(file, t.fd)
         /\ curOffset' = t.cur
         /\ secondLine' = FALSE
         /\ UNCHANGED <<xrefOffset, objects, xrefTable, trailer, pc, err, hist>>

\* one iteration of the while loop of Parser::parse
ParseToken ==
    /\ pc = "loop"
    /\ \E t \in {nextToken(file, fd, curOffset, FALSE, FALSE)} :
          IF t.tok = <<>> THEN TokenEnd(t)
          ELSE IF t.tok = KwXref THEN TokenXref(t)
          ELSE IF t.tok[1] \in DigitSet \ {"0"} THEN TokenObject(t)
          ELSE IF t.tok = KwStartxref THEN TokenStartXref(t)
          ELSE TokenOther(t)
    /\ UNCHANGED <<file, version, arg, out>>

\* the end of Parser::parse: the xref table is synchronized with the
\* objects and the call returns
ParseSync ==
    /\ pc = "sync"
    /\ \E r \in {Synchronize(objects, xrefTable)} :
          /\ objects' = r.objects
          /\ xrefTable' = r.table
          /\ hist' = IF hist.phase = 1
                     THEN [hist EXCEPT !.first = [objects |-> r.objects,
                                                  trailer |-> trailer]]
                     ELSE hist
    /\ pc' = "parsed"
    /\ UNCHANGED <<file, fd, curOffset, xrefOffset, trailer, version,
            secondLine,
                   err, arg, out>>

\* Parser::addObject with an object built by the caller
AddObject ==
    /\ pc = "parsed"
    /\ hist.phase = 1
    /\ hist.adds < MaxAdds
    /\ objects' = Append(objects, NewObject(FirstNewId + hist.adds))
    /\ hist' = [hist EXCEPT !.op = "add", !.dirty = TRUE, !.adds = @ + 1]
    /\ UNCHANGED <<file, fd, curOffset, xrefOffset, xrefTable, trailer, version,
                   secondLine, pc, err, arg, out>>

\* Parser::write(filename, true) on the parsed file
WriteUpdate ==
    /\ pc = "parsed"
    /\ hist.phase = 1
    /\ hist.updates < MaxUpdates
    /\ \E r \in {writeUpdate(file, objects, trailer, xrefOffset, curOffset)} :
          /\ file' = r.bytes
          /\ curOffset' = r.cur
          /\ trailer' = r.trailer
          /\ hist' = [hist EXCEPT !.op = "writeUpdate", !.dirty = TRUE,
                                  !.fileBefore = file, !.wrote = r.wrote,
                                  !.prevXref = hist.lastXref,
                                  !.lastXref = IF r.wrote THEN r.newXrefOffset ELSE @,
                                  !.updates = @ + 1]
    /\ UNCHANGED <<fd, xrefOffset, objects, xrefTable, version, secondLine, pc,
                   err, arg, out>>

\* Parser::write(filename, false) of a document as parsed; the written
\* file is the one parsed next
WriteFull ==
    /\ pc = "parsed"
    /\ hist.phase = 1
    /\ ~hist.dirty
    /\ \E r \in {writeFull(objects, trailer, version, curOffset)} :
          /\ file' = r.bytes
          /\ curOffset' = r.cur
          /\ trailer' = r.trailer
    /\ hist' = [hist EXCEPT !.op = "writeFull", !.fileBefore = file]
    /\ pc' = "written"
    /\ UNCHANGED <<fd, xrefOffset, objects, xrefTable, version, secondLine, err,
                   arg, out>>

\* a second Parser, just constructed, about to parse the written file
Reparse ==
    /\ pc = "written"
    /\ fd' = 0
    /\ curOffset' = 0
    /\ xrefOffset' \in UninitOffsets
    /\ objects' = <<>>
    /\ xrefTable' = <<>>
    /\ trailer' = <<>>
    /\ version' = <<0, 0>>
    /\ secondLine' = TRUE
    /\ pc' = "start"
    /\ err' = ""
    /\ hist' = [hist EXCEPT !.phase = 2, !.op = "none"]
    /\ UNCHANGED <<file, arg, out>>

Next ==
    \/ ParseHeader
    \/ ParseToken
    \/ ParseSync
    \/ AddObject
    \/ WriteUpdate
    \/ WriteFull
    \/ Reparse

Spec == Init /\ [][Next]_vars

-----------------------------------------------------------------------------
(* Properties of the document life cycle *)

\* an Object without its file offset
Content(o) == [o EXCEPT !.offset = 0]
ObjectSet(objs) == {Content(objs[i]) : i \in 1..Len(objs)}
TrailerCore(trl) ==
    DictDel(DictDel(DictDel(trl, KeySize), KeyPrev), KeyXRefStm)

\* the second parse has ended, by a return or by an error
ReparseEnded == hist.phase = 2 /\ pc \in {"parsed", "error"}

\* C1: a file written in full from a parsed document parses again, to the
\* same set of objects and the same trailer dictionary, Size, Prev and
\* XRefStm left aside.
C1_RoundTripFullWrite ==
    ReparseEnded =>
        /\ pc = "parsed"
        /\ ObjectSet(objects) = ObjectSet(hist.first.objects)
        /\ TrailerCore(trailer) = TrailerCore(hist.first.trailer)

\* the second parse stops on an error although the first one returned
C1_ReparseFails ==
    /\ ReparseEnded
    /\ pc = "error"
    /\ err = "invalid_argument"

\* parse has returned and nothing was done to the document since
ParseReturned == pc = "parsed" /\ hist.op = "parse"

SameIdentity(a, b) ==
    a.objectId = b.objectId /\ a.generationNumber = b.generationNumber

\* C2: after a parse without error no two objects of the list have the
\* same object id and generation number.
C2_UniqueIdentity ==
    ParseReturned =>
        \A i, j \in 1..Len(objects) :
            SameIdentity(objects[i], objects[j]) => i = j

\* a parse without error that leaves two objects of one identity
C2_DuplicateParsed ==
    /\ ParseReturned
    /\ \E i, j \in 1..Len(objects) :
          i < j /\ SameIdentity(objects[i], objects[j])

\* the xref entries that match the k-th object
Matching(k) ==
    {i \in 1..Len(xrefTable) : SameIdentity(xrefTable[i], objects[k])}

\* C3, as the code has it: when parse returns, an object that xref entries
\* match has the used flag of the last of them in table order, and the
\* entries are bound to the first object of their identity.
C3_LastEntryDecides ==
    ParseReturned =>
        \A k \in 1..Len(objects) :
            (getObject(objects, objects[k].objectId,
                    objects[k].generationNumber) = k
             /\ Matching(k) # {}) =>
                /\ \E i \in Matching(k) :
                      /\ \A j \in Matching(k) : j <= i
                      /\ objects[k].used = xrefTable[i].used
                /\ \A i \in Matching(k) : xrefTable[i].object = k

\* C3, as stated: every matching entry has the used flag of its object
C3_EveryEntryAgrees ==
    ParseReturned =>
        \A k \in 1..Len(objects) :
            \A i \in Matching(k) :
                getObject(objects, objects[k].objectId,
                          objects[k].generationNumber) = k
                    => objects[k].used = xrefTable[i].used

\* parse has returned with two entries of different flags for one object
C3_TwoSectionsDisagree ==
    /\ ParseReturned
    /\ \E k \in 1..Len(objects) :
          \E i, j \in Matching(k) :
              /\ i < j
              /\ xrefTable[i].used # xrefTable[j].used
              /\ objects[k].used = xrefTable[j].used

NewObjects == SelectSeq(objects, LAMBDA o : o.isNew)

\* write(path, true) has just returned
UpdateReturned == pc = "parsed" /\ hist.op = "writeUpdate"

\* C4: an incremental write of a document without new objects leaves the
\* bytes of the file as they were.
C4_NoNewObjectsNoChange ==
    (UpdateReturned /\ NewObjects = <<>>) => file = hist.fileBefore

\* an incremental write without new objects has made the file longer
C4_FileGrew ==
    /\ UpdateReturned
    /\ NewObjects = <<>>
    /\ Len(file) = Len(hist.fileBefore) + 1

\* the offset of the last occurrence of word w in f, or -1
LastOffsetOf(f, w) ==
    LET hits == {p \in 0..Len(f) : IsPrefixAt(f, p, w)}
    IN IF hits = {} THEN 0 - 1 ELSE CHOOSE p \in hits : \A q \in hits : q <= p

\* the number written after the last startxref keyword of f, or -1
StartxrefValue(f) ==
    Let(LastOffsetOf(f, KwStartxref),
        LAMBDA p :
            IF p < 0 THEN 0 - 1
            ELSE Let(nextToken(f, p + Len(KwStartxref), p, FALSE, FALSE),
                     LAMBDA t : Let(stoi(t.tok),
                                    LAMBDA n : IF n.err # "" THEN 0 - 1 ELSE n.v)))

\* the text an object begins with
ObjectHead(o) ==
    to_string(o.objectId) \o <<" ">> \o to_string(o.generationNumber)
    \o <<" ">> \o KwObj

\* the entries of the xref section that begins at offset x of f
SectionAt(f, x) == XrefLoop(f, x + Len(KwXref), x, <<>>, 0)

\* C5: after an incremental write that wrote objects, the number after
\* startxref is the offset of the appended xref keyword, and that section
\* has one entry per new object, in order, whose offset is where the text
\* of the object begins in the appended part of the file.
C5_UpdateOffsets ==
    (UpdateReturned /\ hist.wrote) =>
        \E x \in {StartxrefValue(file)} :
            /\ x > Len(hist.fileBefore)
            /\ IsPrefixAt(file, x, KwXref)
            /\ \E s \in {SectionAt(file, x)} :
                  /\ s.err = ""
                  /\ Len(s.table) = Len(NewObjects)
                  /\ \A i \in 1..Len(s.table) :
                        /\ SameIdentity(s.table[i], NewObjects[i])
                        /\ s.table[i].offset > Len(hist.fileBefore)
                        /\ s.table[i].offset < x
                        /\ IsPrefixAt(file, s.table[i].offset,
                                      ObjectHead(NewObjects[i]))
                        /\ IsPrefixAt(file, s.table[i].offset,
                                      ObjectStr(NewObjects[i]))

\* an incremental write has appended two objects to a file with content
C5_TwoObjectsAppended ==
    /\ UpdateReturned
    /\ hist.wrote
    /\ Len(NewObjects) = 2
    /\ Len(hist.fileBefore) > Len(FileHeader)

\* C6: the trailer an incremental write appends has Prev equal to the
\* offset of the xref section that was the last of the file before the
\* call.
C6_PrevChained ==
    (UpdateReturned /\ hist.wrote /\ hist.prevXref >= 0) =>
        /\ DictHas(trailer, KeyPrev)
        /\ DictGet(trailer, KeyPrev) = Integer(hist.prevXref, FALSE)

\* the second incremental write has left Prev on the xref section the
\* parse met last, not on the one the first write appended
C6_SecondUpdateSkipsSection ==
    /\ UpdateReturned
    /\ hist.wrote
    /\ hist.updates = 2
    /\ hist.prevXref > xrefOffset
    /\ DictGet(trailer, KeyPrev) = Integer(xrefOffset, FALSE)

-----------------------------------------------------------------------------
(* Unit specifications.  Each one calls one operation of the parser on     *)
(* inputs drawn from a small set; arg holds the input and out the result.  *)

\* the members a unit leaves alone
Untouched ==
    /\ xrefOffset = 0
    /\ objects = <<>>
    /\ xrefTable = <<>>
    /\ version = <<0, 0>>
    /\ secondLine = FALSE

-----------------------------------------------------------------------------
(* parseNumberOrReference inside a data list: [ N second third ]           *)

LookFirst == {<<"1">>, <<"1", "2">>}
LookSecond == {<<"0">>, <<"2">>, <<"R">>, <<"/", "X">>, <<"1", ".", "5">>,
        <<"x">>}
LookThird == {<<"R">>, <<"3">>, <<"o", "b", "j">>, <<"R", "R">>, <<"/", "Y">>}
LookaheadInputs == [first : LookFirst, second : LookSecond, third : LookThird]
LookaheadFile(a) ==
    <<"[">> \o a.first \o <<" ">> \o a.second \o <<" ">> \o a.third \o <<" ",
            "]", "\n">>

\* parseArray has read the opening bracket
InitLookahead ==
    /\ arg \in LookaheadInputs
    /\ file = LookaheadFile(arg)
    /\ fd = 1
    /\ curOffset = 0
    /\ trailer = <<>>
    /\ pc = "array"
    /\ err = ""
    /\ hist = [fd |-> 0, curOffset |-> 0]
    /\ out = [tok |-> <<>>, val |-> NullPtr, next |-> <<>>]
    /\ Untouched

\* parseArray reads the token of N
LookaheadToken ==
    /\ pc = "array"
    /\ \E t \in {nextToken(file, fd, curOffset, TRUE, FALSE)} :
          /\ fd' = t.fd
          /\ curOffset' = t.cur
          /\ err' = t.err
          /\ out' = [out EXCEPT !.tok = t.tok]
    /\ pc' = "token"
    /\ UNCHANGED <<file, xrefOffset, objects, xrefTable, trailer, version,
                   secondLine, hist, arg>>

\* parseType hands the token to parseNumberOrReference; hist keeps the
\* cursor and curOffset of before the call
LookaheadCall ==
    /\ pc = "token"
    /\ err = ""
    /\ \E r \in {parseNumberOrReference(file, out.tok, fd, curOffset)} :
          /\ fd' = r.fd
          /\ curOffset' = r.cur
          /\ err' = r.err
          /\ out' = [out EXCEPT !.val = r.val]
    /\ hist' = [fd |-> fd, curOffset |-> curOffset]
    /\ pc' = "returned"
    /\ UNCHANGED <<file, xrefOffset, objects, xrefTable, trailer, version,
                   secondLine, arg>>

\* parseArray reads its next token
LookaheadNext ==
    /\ pc = "returned"
    /\ err = ""
    /\ \E t \in {nextToken(file, fd, curOffset, TRUE, FALSE)} :
          /\ fd' = t.fd
          /\ curOffset' = t.cur
          /\ err' = t.err
          /\ out' = [out EXCEPT !.next = t.tok]
    /\ pc' = "done"
    /\ UNCHANGED <<file, xrefOffset, objects, xrefTable, trailer, version,
                   secondLine, hist, arg>>

NextLookahead == LookaheadToken \/ LookaheadCall \/ LookaheadNext

SpecLookahead == InitLookahead /\ [][NextLookahead]_vars

IsDigits(t) == t # <<>> /\ \A i \in 1..Len(t) : t[i] \in DigitSet
IsReferenceInput(a) == IsDigits(a.second) /\ a.third = <<"R">>
LookaheadReturned == pc \in {"returned", "done"}

\* the lookahead apart from curOffset: the value returned, the cursor
\* and the token read next
LookaheadValueAndCursor ==
    /\ err = ""
    /\ IF IsReferenceInput(arg)
       THEN out.val = Reference(stoi(arg.first).v, stoi(arg.second).v)
       ELSE /\ out.val = Integer(stoi(arg.first).v, FALSE)
            /\ pc = "returned" => fd = hist.fd
            /\ pc = "done" => out.next = arg.second

\* C7: N G R is a Reference; after any other two tokens the Integer N is
\* returned, the cursor is where it was before the lookahead, the token
\* read next is the one after N, and curOffset is what it was.
C7_LookaheadTransactional ==
    LookaheadReturned =>
        /\ LookaheadValueAndCursor
        /\ (pc = "returned" /\ ~IsReferenceInput(arg))
               => curOffset = hist.curOffset

\* a rollback has left curOffset on the third token
C7_CurOffsetMoved ==
    /\ pc = "returned"
    /\ ~IsReferenceInput(arg)
    /\ out.val = Integer(stoi(arg.first).v, FALSE)
    /\ fd = hist.fd
    /\ curOffset > hist.curOffset

-----------------------------------------------------------------------------
(* parseTrailer on: trailer sep dictionary follow                          *)

TrailerSeps == {<<"\n">>, <<" ">>}
TrailerDicts ==
    {<<"<", "<", ">", ">">>,
     <<"<", "<", "/", "S", "i", "z", "e", " ", "2", ">", ">">>,
     <<"<", "<", "/", "P", "r", "e", "v", " ", "9", "/", "I", "n", "f", "o",
             "/", "I", ">", ">">>,
     <<"<", "<", " ", "/", "S", "i", "z", "e", " ", "2", " ", "/", "R", "o",
             "o", "t", " ", "1", " ", "0", " ", "R", " ", ">", ">">>}
TrailerFollows ==
    {<<>>, <<"\n">>, <<"\n", "%", "c", "\n">>, <<"\n", "1", " ", "0", " ",
            "o", "b", "j", "\n", "e", "n", "d", "o", "b", "j", "\n">>, <<"1",
            " ", "0", " ", "o", "b", "j", "\n", "e", "n", "d", "o", "b", "j",
            "\n">>,
     <<"\r", "\n", "7", " ", "0", " ", "o", "b", "j", "\n", "<", "<", ">",
             ">", "\n", "e", "n", "d", "o", "b", "j", "\n">>,
     <<"\n", "x", "r", "e", "f", "\n", "0", " ", "0", "\n", "t", "r", "a",
             "i", "l", "e", "r", "\n", "<", "<", ">", ">", "\n", "s", "t",
             "a", "r", "t", "x", "r", "e", "f", "\n", "0", "\n", "%", "%",
             "E", "O", "F", "\n">>,
     <<"\n", "s", "t", "a", "r", "t", "x", "r", "e", "f", "\n", "9", "\n",
             "%", "%", "E", "O", "F", "\n">>, <<" ", "s", "t", "a", "r", "t",
             "x", "r", "e", "f", "\n", "9", "\n", "%", "%", "E", "O", "F">>,
             <<"\n", "s", "t", "a", "r", "t", "x", "r", "e", "f", "\n">>}
TrailerInputs == [sep : TrailerSeps, dict : TrailerDicts,
        follow : TrailerFollows]
TrailerFile(a) == KwTrailer \o a.sep \o a.dict \o a.follow

\* parseXref has read the trailer keyword
InitTrailer ==
    /\ arg \in TrailerInputs
    /\ file = TrailerFile(arg)
    /\ fd = Len(KwTrailer)
    /\ curOffset = 0
    /\ trailer = <<>>
    /\ pc = "xref"
    /\ err = ""
    /\ hist = <<>>
    /\ out = [res |-> FALSE, next |-> <<>>]
    /\ Untouched

\* parseXref calls parseTrailer
TrailerCall ==
    /\ pc = "xref"
    /\ \E r \in {parseTrailer(file, fd, curOffset, trailer)} :
          /\ fd' = r.fd
          /\ curOffset' = r.cur
          /\ trailer' = r.trailer
          /\ err' = r.err
          /\ out' = [out EXCEPT !.res = r.res]
    /\ pc' = "returned"
    /\ UNCHANGED <<file, xrefOffset, objects, xrefTable, version, secondLine,
                   hist, arg>>

\* the loop of Parser::parse reads its next token
TrailerNext ==
    /\ pc = "returned"
    /\ err = ""
    /\ \E t \in {nextToken(file, fd, curOffset, FALSE, FALSE)} :
          /\ fd' = t.fd
          /\ curOffset' = t.cur
          /\ out' = [out EXCEPT !.next = t.tok]
    /\ pc' = "done"
    /\ UNCHANGED <<file, xrefOffset, objects, xrefTable, trailer, version,
                   secondLine, err, hist, arg>>

NextTrailer == TrailerCall \/ TrailerNext

SpecTrailer == InitTrailer /\ [][NextTrailer]_vars

\* the first token after the closing >> of the trailer dictionary, empty
\* at the end of the file
TokenAfterDictionary ==
    nextToken(file, Len(KwTrailer \o arg.sep \o arg.dict), 0, FALSE, FALSE).tok
TrailerReturned == pc \in {"returned", "done"}

\* C8: when the trailer dictionary is followed by anything but startxref,
\* parseTrailer raises no error and returns false, and the loop of parse
\* reads the first token after the dictionary next.
C8_TrailerTolerated ==
    (TrailerReturned /\ TokenAfterDictionary # KwStartxref) =>
        /\ err = ""
        /\ out.res = FALSE
        /\ pc = "done" => out.next = TokenAfterDictionary

\* a trailer dictionary at the end of the file has raised TRUNCATED_FILE
C8_TruncatedAtEnd ==
    /\ pc = "returned"
    /\ TokenAfterDictionary = <<>>
    /\ err = "TRUNCATED_FILE"

-----------------------------------------------------------------------------
(* Integer tokens through parseType and Integer::str                      *)

MaxDigits == 3
SignDigits == {"0", "1", "9"}
DigitStrings == UNION {[1..n -> SignDigits] : n \in 1..MaxDigits}
Signs == {<<"+">>, <<"-">>, <<>>}
SignTokens == {s \o ds : s \in Signs, ds \in DigitStrings}

\* parseType is about to dispatch on the token
InitSign ==
    /\ arg \in SignTokens
    /\ file = <<>>
    /\ fd = 0
    /\ curOffset = 0
    /\ trailer = <<>>
    /\ pc = "token"
    /\ err = ""
    /\ hist = <<>>
    /\ out = [val |-> NullPtr, text |-> <<>>]
    /\ Untouched

\* parseType on a token that begins with a sign: parseSignedNumber, and
\* the text Integer::str gives for the value
SignedNumber ==
    /\ pc = "token"
    /\ arg[1] \in {"+", "-"}
    /\ \E r \in {parseSignedNumber(arg)} :
          /\ err' = r.err
          /\ out' = [val |-> r.val,
                     text |-> IF r.err = "" THEN IntegerStr(r.val) ELSE <<>>]
    /\ pc' = "done"
    /\ UNCHANGED <<file, fd, curOffset, xrefOffset, objects, xrefTable, trailer,
                   version, secondLine, hist, arg>>

\* parseType on a token that begins with a digit: tokenToNumber without a
\* sign, and the text Integer::str gives for the value
UnsignedNumber ==
    /\ pc = "token"
    /\ arg[1] \in DigitSet
    /\ \E r \in {parseNumber(arg)} :
          /\ err' = r.err
          /\ out' = [val |-> r.val,
                     text |-> IF r.err = "" THEN IntegerStr(r.val) ELSE <<>>]
    /\ pc' = "done"
    /\ UNCHANGED <<file, fd, curOffset, xrefOffset, objects, xrefTable, trailer,
                   version, secondLine, hist, arg>>

NextSign == SignedNumber \/ UnsignedNumber

SpecSign == InitSign /\ [][NextSign]_vars

\* the text is a space, the sign character c and digits
HasSign(text, c) ==
    /\ Len(text) >= 3
    /\ text[1] = " "
    /\ text[2] = c
    /\ \A i \in 3..Len(text) : text[i] \in DigitSet
\* the text is a space and digits
HasNoSign(text) ==
    /\ Len(text) >= 2
    /\ text[1] = " "
    /\ \A i \in 2..Len(text) : text[i] \in DigitSet

\* C10: the text of a parsed integer token has the sign character of the
\* token, and no sign when the token has none.
C10_SignPreserved ==
    pc = "done" =>
        /\ err = ""
        /\ IF arg[1] \in {"+", "-"} THEN HasSign(out.text, arg[1])
           ELSE HasNoSign(out.text)

\* a token of sign - and value zero has come out with sign +
C10_MinusZeroIsPlus ==
    /\ pc = "done"
    /\ arg = <<"-", "0">>
    /\ out.text = <<" ", "+", "0">>

-----------------------------------------------------------------------------
(* A Dictionary under addData, deleteKey and parseDictionary               *)

MaxOps == 4
DictKeys == {<<"B">>, <<"P", "r", "e", "v">>, <<"S", "i", "z", "e">>}
DictValues == {Integer(1, FALSE), Name(<<"/", "N">>)}
DictEntrySeqs ==
    {<<[k |-> <<"S", "i", "z", "e">>, v |-> Integer(1, FALSE)],
            [k |-> <<"B">>, v |-> Name(<<"/", "N">>)]>>,
     <<[k |-> <<"P", "r", "e", "v">>, v |-> Name(<<"/", "N">>)], [k |-> <<"P",
             "r", "e", "v">>, v |-> Integer(1, FALSE)]>>}

\* the text of the entries es as a file holds them, after the opening <<
DictionaryText(es) ==
    Concat([i \in 1..Len(es) |-> <<"/">> \o es[i].k \o ValueStr(es[i].v)])
    \o <<">", ">", "\n", "e", "n", "d", "o", "b", "j", "\n">>

\* an empty Dictionary; hist is the log of what is done to it
InitDict ==
    /\ trailer = <<>>
    /\ hist = <<>>
    /\ out = <<"<", "<", ">", ">", "\n">>
    /\ file = <<>>
    /\ fd = 0
    /\ curOffset = 0
    /\ pc = "dict"
    /\ err = ""
    /\ arg = <<>>
    /\ Untouched

\* Dictionary::addData(k, v) and Dictionary::str
AddData ==
    /\ Len(hist) < MaxOps
    /\ \E k \in DictKeys, v \in DictValues :
          /\ \E m \in {addData(trailer, k, v)} :
                /\ trailer' = m
                /\ out' = DictionaryStr(m)
          /\ hist' = Append(hist, [op |-> "add", k |-> k, v |-> v])
    /\ UNCHANGED <<file, fd, curOffset, xrefOffset, objects, xrefTable, version,
                   secondLine, pc, err, arg>>

\* Object::deleteKey("Prev") and Dictionary::str
DeleteKey ==
    /\ Len(hist) < MaxOps
    /\ \E m \in {DictDel(trailer, KeyPrev)} :
          /\ trailer' = m
          /\ out' = DictionaryStr(m)
    /\ hist' = Append(hist, [op |-> "del", k |-> KeyPrev, v |-> NullPtr])
    /\ UNCHANGED <<file, fd, curOffset, xrefOffset, objects, xrefTable, version,
                   secondLine, pc, err, arg>>

\* parseDictionary into the Dictionary, from a text of two entries, and
\* Dictionary::str
ParseDictionary ==
    /\ Len(hist) + 2 <= MaxOps
    /\ \E es \in DictEntrySeqs :
          /\ \E r \in {parseDictionary(DictionaryText(es), 0, 0, trailer,
                  trailer,
                                      TRUE)} :
                /\ trailer' = r.map
                /\ err' = r.err
                /\ out' = DictionaryStr(r.map)
          /\ file' = DictionaryText(es)
          /\ hist' = hist \o [i \in 1..2 |-> [op |-> "add", k |-> es[i].k,
                                             v |-> es[i].v]]
    /\ UNCHANGED <<fd, curOffset, xrefOffset, objects, xrefTable, version,
                   secondLine, pc, arg>>

NextDict == AddData \/ DeleteKey \/ ParseDictionary

SpecDict == InitDict /\ [][NextDict]_vars

\* the index of the last operation of the log on key k, or 0
LastOp(log, k) ==
    LET hits == {i \in 1..Len(log) : log[i].k = k}
    IN IF hits = {} THEN 0 ELSE CHOOSE i \in hits : \A j \in hits : j <= i
\* the keys the log leaves in the Dictionary
KeysOf(log) ==
    {k \in DictKeys : LastOp(log, k) # 0 /\ log[LastOp(log, k)].op = "add"}
\* the index of the insertion that put key k in for the last time it was
\* absent
InsertedAt(log, k) ==
    LET dels == {i \in 1..Len(log) : log[i].k = k /\ log[i].op = "del"}
        from == IF dels = {} THEN 0 ELSE CHOOSE i \in dels : \A j \in dels : j <= i
        adds == {i \in 1..Len(log) : log[i].k = k /\ log[i].op = "add" /\ i > from}
    IN CHOOSE i \in adds : \A j \in adds : i <= j

\* the keys of set ks as a sequence, Before(a, b) saying that a comes first
Ordered(ks, Before(_, _)) ==
    [i \in 1..Cardinality(ks) |->
        CHOOSE k \in ks : Cardinality({j \in ks : Before(j, k)}) = i - 1]

\* the text of a Dictionary that holds the keys ks in this order, with
\* the values the log gave them last
TextOf(log, ks) ==
    <<"<", "<">>
    \o Concat([i \in 1..Len(ks) |->
                 <<"/">> \o ks[i] \o ValueStr(log[LastOp(log, ks[i])].v)])
    \o <<">", ">", "\n">>

-----------------------------------------------------------------------------
(* parseObject on: 1 0 obj, body items, endobj                             *)

MaxBodyItems == 3
BodyItems ==
    {<<"<", "<", "/", "B", " ", "1", "/", "A", " ", "+", "2", ">", ">">>,
            <<"5">>, <<"1", "2">>, <<"(", "s", ")">>, <<"[", "/", "N", "]">>,
            <<"/", "N">>}
ObjectBodies == UNION {[1..n -> BodyItems] : n \in 0..MaxBodyItems}
ObjectFile(items) ==
    <<"1", " ", "0", " ", "o", "b", "j">>
    \o Concat([i \in 1..Len(items) |-> <<"\n">> \o items[i]])
    \o <<"\n", "e", "n", "d", "o", "b", "j", "\n">>

\* the loop of Parser::parse is about to read the first token of the object
InitObject ==
    /\ arg \in ObjectBodies
    /\ file = ObjectFile(arg)
    /\ fd = 0
    /\ curOffset = 0
    /\ trailer = <<>>
    /\ pc = "loop"
    /\ err = ""
    /\ hist = <<>>
    /\ out = <<>>
    /\ Untouched

\* the loop of Parser::parse reads the token of the object id
ObjectToken ==
    /\ pc = "loop"
    /\ \E t \in {nextToken(file, fd, curOffset, FALSE, FALSE)} :
          /\ fd' = t.fd
          /\ curOffset' = t.cur
          /\ out' = t.tok
    /\ pc' = "token"
    /\ UNCHANGED <<file, xrefOffset, objects, xrefTable, trailer, version,
                   secondLine, err, hist, arg>>

\* the loop of Parser::parse calls parseObject(token)
ObjectCall ==
    /\ pc = "token"
    /\ \E r \in {parseObject(file, out, fd, curOffset, objects)} :
          /\ objects' = r.objects
          /\ fd' = r.fd
          /\ curOffset' = r.cur
          /\ err' = r.err
    /\ pc' = "returned"
    /\ UNCHANGED <<file, xrefOffset, xrefTable, trailer, version, secondLine,
                   hist, arg, out>>

NextObject == ObjectToken \/ ObjectCall

SpecObject == InitObject /\ [][NextObject]_vars

\* parseObject has returned without error
ObjectParsed == pc = "returned" /\ err = ""

\* C11: after parseObject completes without error, an Object whose
\* indirect offset is set has an empty dictionary and an empty data list.
C11_IndirectIsBare ==
    ObjectParsed =>
        \A i \in 1..Len(objects) :
            isIndirect(objects[i]) =>
                objects[i].dictionary = <<>> /\ objects[i].data = <<>>

\* an object body of a dictionary and an integer has parsed without error:
\* the Object has the indirect offset and the dictionary
C11_IndirectWithDictionary ==
    /\ ObjectParsed
    /\ arg = <<<<"<", "<", "/", "B", " ", "1", "/", "A", " ", "+", "2", ">",
            ">">>, <<"5">>>>
    /\ Len(objects) = 1
    /\ objects[1].indirectOffset = 5
    /\ objects[1].dictionary # <<>>

-----------------------------------------------------------------------------
(* parseStream on: 1 0 obj, dictionary, stream, body, endstream, endobj    *)

MaxShortPad == 3
MaxBack == 10

\* n characters of body content without a line end
Pad(n) == [i \in 1..n |-> IF i % 2 = 1 THEN "x" ELSE " "]
\* body lengths: short ones, and ones that put endstream before, across and
\* after the end of parseStream's line buffer
PadLens == (0..MaxShortPad) \cup {StreamBufferSize - k : k \in 0..MaxBack}
\* Length is a Reference, a Filter is present, Length is an Integer
StreamDicts == {<<"/", "L", "e", "n", "g", "t", "h", " ", "5", " ", "0", " ",
        "R">>, <<"/", "F", "i", "l", "t", "e", "r", "/", "F", "l", "/", "L",
        "e", "n", "g", "t", "h", " ", "0">>, <<"/", "L", "e", "n", "g", "t",
        "h", " ", "0">>, <<"/", "L", "e", "n", "g", "t", "h", " ", "1">>}
\* what stands between the body content and endstream
StreamSeps == {<<>>, <<"\n">>}
StreamInputs == [dict : StreamDicts, pad : PadLens, sep : StreamSeps]
StreamFile(a) ==
    <<"1", " ", "0", " ", "o", "b", "j", "\n", "<", "<">> \o a.dict \o <<">",
            ">", "\n", "s", "t", "r", "e", "a", "m",
            "\n">> \o Pad(a.pad) \o a.sep
    \o KwEndstream \o <<"\n", "e", "n", "d", "o", "b", "j", "\n">>

\* parseObject has read "1 0 obj" and pushed the Object; its loop is about
\* to read the first token of the body
InitStream ==
    /\ arg \in StreamInputs
    /\ file = StreamFile(arg)
    /\ fd = 7
    /\ curOffset = 4
    /\ objects = <<Object(1, 0, 0)>>
    /\ xrefOffset = 0
    /\ xrefTable = <<>>
    /\ trailer = <<>>
    /\ version = <<0, 0>>
    /\ secondLine = FALSE
    /\ pc = "object"
    /\ err = ""
    /\ hist = <<>>
    /\ out = <<>>

\* parseObject's loop reads << and parses the object's dictionary
StreamDictionary ==
    /\ pc = "object"
    /\ \E t \in {nextToken(file, fd, curOffset, TRUE, FALSE)} :
          /\ t.err = ""
          /\ t.tok = <<"<", "<">>
          /\ \E d \in {parseDictionary(file, t.fd, t.cur,
                                       objects[1].dictionary,
                                       objects[1].dictionary, TRUE)} :
                /\ objects' = [objects EXCEPT ![1].dictionary = d.map]
                /\ fd' = d.fd
                /\ curOffset' = d.cur
                /\ err' = d.err
    /\ pc' = "dictionary"
    /\ UNCHANGED <<file, xrefOffset, xrefTable, trailer, version, secondLine,
                   hist, arg, out>>

\* parseObject's loop reads the next token, the stream keyword
StreamKeyword ==
    /\ pc = "dictionary"
    /\ err = ""
    /\ \E t \in {nextToken(file, fd, curOffset, TRUE, FALSE)} :
          /\ fd' = t.fd
          /\ curOffset' = t.cur
          /\ err' = t.err
          /\ out' = t.tok
    /\ pc' = "stream"
    /\ UNCHANGED <<file, xrefOffset, objects, xrefTable, trailer, version,
                   secondLine, hist, arg>>

\* parseType calls parseStream(object); hist keeps the cursor at the call,
\* which is parseStream's startOffset, and the Stream returned
StreamCall ==
    /\ pc = "stream"
    /\ err = ""
    /\ out = KwStream
    /\ \E r \in {parseStream(file, fd, curOffset, objects[1].dictionary)} :
          /\ hist' = <<[startOffset |-> fd, val |-> r.val]>>
          /\ fd' = r.fd
          /\ curOffset' = r.cur
          /\ err' = r.err
    /\ pc' = "returned"
    /\ UNCHANGED <<file, xrefOffset, objects, xrefTable, trailer, version,
                   secondLine, arg, out>>

NextStream == StreamDictionary \/ StreamKeyword \/ StreamCall

SpecStream == InitStream /\ [][NextStream]_vars

\* the offset of the first occurrence of endstream at or after offset s
FirstEndstream(f, s) ==
    LET hits == {i \in s..(Len(f) - 9) : IsPrefixAt(f, i, KwEndstream)}
    IN  CHOOSE i \in hits : \A j \in hits : i <= j

\* parseStream was called and did not return through its direct jump
ScanningPath ==
    /\ pc = "returned"
    /\ LET od == objects[1].dictionary
           Length == DictGet(od, KeyLength)
       IN  \/ DictHas(od, KeyFilter)
           \/ Length.t # "Integer"
           \/ nextToken(file, hist[1].startOffset + Length.value, curOffset,
                        TRUE, FALSE).tok # KwEndstream

\* C12: whenever parseStream takes the scanning path, the recorded end is
\* the offset just before the first occurrence of endstream at or after
\* start, and the cursor is left just after that endstream (the line end
\* that follows endstream may be consumed with it).
C12_ScanFindsFirstEndstream ==
    ScanningPath =>
        LET E == FirstEndstream(file, hist[1].startOffset) IN
        /\ err = ""
        /\ hist[1].val.t = "Stream"
        /\ hist[1].val.endOffset = E
        /\ \/ fd = E + 9
           \/ fd = E + 10 /\ file[E + 10] \in EOL

\* the scan was run on a body whose endstream lies across the end of the
\* line buffer, and it did not find it
C12_EndstreamAcrossBuffer ==
    /\ ScanningPath
    /\ arg.pad = StreamBufferSize - 4
    /\ arg.sep = <<>>
    /\ err = "TRUNCATED_FILE"

\* the scan was run on a body that fills the line buffer up to the end of
\* endstream, and recorded the offset before the last byte of the body
C12_EndstreamFillsBuffer ==
    /\ ScanningPath
    /\ arg.pad = StreamBufferSize - 9
    /\ arg.sep = <<>>
    /\ err = ""
    /\ hist[1].val.endOffset = hist[1].startOffset + arg.pad - 1
    /\ fd = hist[1].startOffset + arg.pad + 9

\* the scan was run on a short body and recorded the offset of endstream
C12_ShortBodyFound ==
    /\ ScanningPath
    /\ arg.pad = 3
    /\ err = ""
    /\ hist[1].val.endOffset = FirstEndstream(file, hist[1].startOffset)

-----------------------------------------------------------------------------
(* Parser::parse on files of objects with streams, xref sections and       *)
(* startxref keywords                                                      *)

MaxParseChunks == 2
MaxObjects == 4

\* an object with a stream of the length its dictionary gives
ChunkStream ==
    <<"1", " ", "0", " ", "o", "b", "j", "\n", "<", "<", "/", "L", "e", "n",
            "g", "t", "h", " ", "3", ">", ">", "\n", "s", "t", "r", "e", "a",
            "m", "\n", "a", "b", "c", "\n", "e", "n", "d", "s", "t", "r", "e",
            "a", "m", "\n", "e", "n", "d", "o", "b", "j", "\n">>

\* an object with a stream whose Length is negative: behind an object that
\* ends in "endstream\nendobj\n", start + Length is the offset of that
\* object's endstream
ChunkStreamBack ==
    <<"2", " ", "0", " ", "o", "b", "j", "\n", "<", "<", "/", "L", "e", "n",
            "g", "t", "h", " ", "-", "4", "8", ">", ">", "\n", "s", "t", "r",
            "e", "a", "m", "\n", "a", "b", "c", "\n", "e", "n", "d", "s", "t",
            "r", "e", "a", "m", "\n", "e", "n", "d", "o", "b", "j", "\n">>

\* an object with a stream whose Length is negative and leads to no endstream
ChunkStreamNeg ==
    <<"3", " ", "0", " ", "o", "b", "j", "\n", "<", "<", "/", "L", "e", "n",
            "g", "t", "h", " ", "-", "5", ">", ">", "\n", "s", "t", "r", "e",
            "a", "m", "\n", "a", "b", "c", "\n", "e", "n", "d", "s", "t", "r",
            "e", "a", "m", "\n", "e", "n", "d", "o", "b", "j", "\n">>

\* a startxref without trailer, with %%EOF stuck to what follows
ChunkStartxref ==
    <<"s", "t", "a", "r", "t", "x", "r", "e", "f", "\n", "9", "\n", "%", "%",
            "E", "O", "F">>

ParseChunks ==
    {ChunkObj1, ChunkStream, ChunkStreamBack, ChunkStreamNeg, ChunkXrefN,
     ChunkXrefF, ChunkStartxref}
ParseInputs == UNION {[1..n -> ParseChunks] : n \in 0..MaxParseChunks}

\* a Parser just constructed, about to parse the file
InitParse ==
    /\ arg \in ParseInputs
    /\ file = FileHeader \o Concat(arg)
    /\ fd = 0
    /\ curOffset = 0
    /\ xrefOffset \in UninitOffsets
    /\ objects = <<>>
    /\ xrefTable = <<>>
    /\ trailer = <<>>
    /\ version = <<0, 0>>
    /\ secondLine = TRUE
    /\ pc = "start"
    /\ err = ""
    /\ hist = NoHist
    /\ out = <<>>

\* one iteration of the while loop of Parser::parse, followed as long as
\* the object list is shorter than MaxObjects
LoopToken ==
    /\ Len(objects) < MaxObjects
    /\ ParseToken

NextParse == ParseHeader \/ LoopToken \/ ParseSync

SpecParse == InitParse /\ [][NextParse]_vars

\* C13: Parser::parse terminates: an iteration of its top-level loop that
\* does not end the loop leaves the file cursor further in the file than
\* it found it, so that the cursor never moves back over parsed bytes, the
\* loop cannot run forever and the object list cannot grow without bound.
C13_ParseTerminates ==
    [][(pc = "loop" /\ pc' = "loop") => fd' > fd]_vars

\* the file holds two objects, and the loop has parsed the second of them
\* again and again: the object list holds MaxObjects objects and the loop
\* goes on
C13_ObjectParsedAgain ==
    /\ arg = <<ChunkStream, ChunkStreamBack>>
    /\ pc = "loop"
    /\ err = ""
    /\ Len(objects) = MaxObjects
    /\ \A i \in 2..Len(objects) : objects[i].objectId = 2

=============================================================================
